---- MODULE Spec2Model ----
(***************************************************************************)
(* Voice-model registry (backend/voice_cloner.py), its HTTP passthrough,   *)
(* the upload and root routes (backend/main.py) and the synthesis paths    *)
(* of the TTS engine (backend/tts_engine.py), with the audio validation    *)
(* of backend/utils/audio_utils.py.                                        *)
(*                                                                         *)
(* The service is single-process and synchronous: every call is one        *)
(* atomic action.  Filesystem and model failures are inputs of the action  *)
(* (a "fault"), chosen nondeterministically.                               *)
(***************************************************************************)
EXTENDS Integers, Sequences, FiniteSets, TLC

VARIABLES
    metadata,    \* VoiceCloner.metadata["models"]: model id -> record
    meta_shape,  \* what VoiceCloner.metadata is: "models" is {"models": {...}}
    disk,        \* models_metadata.json on disk
    model_dirs,  \* models_dir/<id>/ directories: id -> content of reference.wav
    clock,       \* datetime.now(), in whole seconds
    steps,       \* the steps made so far
    last,        \* the call that returned last: operation, arguments, result
    files,       \* files the TTS engine reads and writes: path -> content
    tts_last     \* the TTS engine call that returned last

vars == <<metadata, meta_shape, disk, model_dirs, clock, steps, last, files, tts_last>>

----------------------------------------------------------------------------
(* Bounds of the model *)

\* a behaviour makes at most MaxSteps steps (calls and clock ticks)
MaxSteps == 3

\* the longest model name given to _generate_model_id alone
MaxNameLen == 2

----------------------------------------------------------------------------
(* Values *)

\* Optional[T]: None is the empty set, a value v is {v}
None == {}

Some(v) == {v}

\* Python truthiness of an Optional[str] whose strings are sequences
Truthy(opt) == \E v \in opt : Len(v) > 0

\* AudioProcessor.sample_rate
SAMPLE_RATE == 22050

\* the threshold of "Audio level too low", in thousandths of full scale
RMS_MIN == 10

\* the threshold of "Audio may be clipping", in thousandths of full scale
PEAK_MAX == 990

\* the threshold of "Low signal-to-noise ratio", in dB
SNR_MIN == 10

\* min_duration of create_voice_model, in seconds
CREATE_MIN_DURATION == 10

\* min_duration of clone_voice, in seconds
CLONE_MIN_DURATION == 5

\* str.lower() on one character of the names below; "É" is U+00C9
Lower(c) == CASE c = "A" -> "a" [] c = "É" -> "é" [] OTHER -> c

\* str.isalnum() on one character of the names below: true of every
\* Unicode letter and digit, "é" (U+00E9) and "É" included
IsAlnum(c) == c \in {"A", "a", "b", "1", "é", "É"}

\* Model names given to create_voice_model.
Names == { <<"A", "!">>, <<"a", "?">> }

\* Descriptions given to create_voice_model.
Descriptions == { "warm" }

\* Decoded uploads: n samples, rms and peak in thousandths, snr in dB.
\* decodable = FALSE is a file librosa.load cannot read.
Audios ==
    { [tag |-> "good",   decodable |-> TRUE,  n |-> 12 * SAMPLE_RATE, rms |-> 100, peak |-> 500, snr |-> 20],
      [tag |-> "long",   decodable |-> TRUE,  n |-> 15 * SAMPLE_RATE, rms |-> 200, peak |-> 995, snr |-> 5],
      [tag |-> "short",  decodable |-> TRUE,  n |-> 3 * SAMPLE_RATE,  rms |-> 100, peak |-> 500, snr |-> 20],
      [tag |-> "quiet",  decodable |-> TRUE,  n |-> 12 * SAMPLE_RATE, rms |-> 5,   peak |-> 20,  snr |-> 20],
      [tag |-> "empty",  decodable |-> TRUE,  n |-> 0,                rms |-> 0,   peak |-> 0,   snr |-> 0],
      [tag |-> "broken", decodable |-> FALSE, n |-> 0,                rms |-> 0,   peak |-> 0,   snr |-> 0] }

\* datetime.now().strftime("%Y%m%d_%H%M%S") at clock value t
Timestamp(t) ==
    <<"20240101_120000", "20240101_120001", "20240101_120002",
      "20240101_120003", "20240101_120004", "20240101_120005">>[t + 1]

----------------------------------------------------------------------------
(* backend/utils/audio_utils.py *)

\* AudioProcessor.validate_audio_quality.  np.abs(audio).max() raises
\* ValueError on an array of zero samples: raised = TRUE, no report.
validate_audio_quality(audio, min_duration) ==
    IF audio.n = 0
    THEN [raised |-> TRUE, is_valid |-> FALSE, duration |-> 0, rms |-> 0,
          peak |-> 0, snr_db |-> 0, issues |-> <<>>]
    ELSE LET short == audio.n < min_duration * SAMPLE_RATE
             low   == audio.rms < RMS_MIN
             i1 == IF short THEN <<"Audio too short">> ELSE <<>>
             i2 == IF low THEN <<"Audio level too low">> ELSE <<>>
             i3 == IF audio.peak > PEAK_MAX THEN <<"Audio may be clipping">> ELSE <<>>
             i4 == IF audio.snr < SNR_MIN THEN <<"Low signal-to-noise ratio">> ELSE <<>>
         IN  [raised |-> FALSE,
              is_valid |-> ~short /\ ~low,
              duration |-> audio.n,
              rms |-> audio.rms,
              peak |-> audio.peak,
              snr_db |-> audio.snr,
              issues |-> i1 \o i2 \o i3 \o i4]

\* AudioProcessor.normalize_audio: the waveform scaled to an RMS of 0.1
\* (-20 dB), then to a peak of 0.99 when the scaled peak exceeds 1.0; a
\* silent waveform is returned as it is.
normalize_audio(audio) ==
    IF audio.rms = 0 THEN audio
    ELSE LET scaled_peak == (audio.peak * 100) \div audio.rms
         IN  IF scaled_peak > 1000
             THEN [audio EXCEPT !.rms = (100 * 990) \div scaled_peak, !.peak = 990]
             ELSE [audio EXCEPT !.rms = 100, !.peak = scaled_peak]

\* AudioProcessor.preprocess_for_tts: the processed waveform of an upload
preprocess_for_tts(audio) == <<"processed", audio.tag>>

----------------------------------------------------------------------------
(* backend/voice_cloner.py *)

\* VoiceCloner._generate_model_id at clock value now
generate_model_id(model_name, now) ==
    LET clean_name == [i \in 1..Len(model_name) |->
                          IF IsAlnum(Lower(model_name[i]))
                          THEN Lower(model_name[i]) ELSE "_"]
    IN  clean_name \o <<"_", Timestamp(now)>>

\* The ids add_preset_voices registers.
PresetIds == { <<"preset_morgan_freeman">>, <<"preset_david_attenborough">> }

\* Every id a request can name.
ModelIds == { generate_model_id(nm, t) : nm \in Names, t \in 0..(MaxSteps - 1) } \cup PresetIds

\* str(model_dir / "reference.wav")
ReferencePath(model_id) == <<"models/">> \o model_id \o <<"/reference", ".wav">>

\* What a failing write of models_metadata.json does: open() raises and the
\* file is as it was, or json.dump raises after open() truncated the file.
MetaFaults == {"meta_open", "meta_dump"}

\* models_metadata.json: exists, wellformed (json.load accepts it), shape
\* (what the JSON value is: "models" is an object whose "models" is an
\* object) and models (the mapping under "models" of such a document).
NoDocument == [exists |-> FALSE, wellformed |-> FALSE, shape |-> "models", models |-> << >>]

\* VoiceCloner._load_metadata: the mapping a registry constructed on the
\* document holds.  No file, or a file json.load rejects, is the empty mapping.
load_metadata(dk) ==
    IF dk.exists /\ dk.wellformed /\ dk.shape = "models" THEN dk.models ELSE << >>

\* VoiceCloner._load_metadata: what the value it returns is.  Whatever
\* json.load accepts is returned as it is.
loaded_shape(dk) == IF dk.exists /\ dk.wellformed THEN dk.shape ELSE "models"

\* _save_metadata opening the file with mode 'x' instead of 'w': an existing
\* document is never rewritten.
save_metadata_exclusive(md, dk, fault) ==
    CASE fault = "meta_open" -> dk
      [] fault = "meta_dump" -> [exists |-> TRUE, wellformed |-> FALSE, shape |-> "models", models |-> << >>]
      [] OTHER -> IF dk.exists THEN dk
                  ELSE [exists |-> TRUE, wellformed |-> TRUE, shape |-> "models", models |-> md]

\* VoiceCloner._save_metadata: the document after the call.  Every
\* exception is logged and swallowed.
save_metadata(md, dk, fault) ==
    CASE fault = "meta_open" -> dk
      [] fault = "meta_dump" -> [exists |-> TRUE, wellformed |-> FALSE, shape |-> "models", models |-> << >>]
      [] OTHER -> [exists |-> TRUE, wellformed |-> TRUE, shape |-> "models", models |-> md]

\* a result dictionary of the registry
Result(success, keys, error, issues, model_id, model_info) ==
    [success |-> success, keys |-> keys, error |-> error, issues |-> issues,
     model_id |-> model_id, model_info |-> model_info]

NotFound == Result(FALSE, {"success", "error"}, "Model not found", <<>>, <<>>, None)

Raised(e) == Result(FALSE, {"success", "error"}, e, <<>>, <<>>, None)

\* What can fail in create_voice_model once the audio is validated: mkdir
\* (or any step before it) raises, save_audio raises in the new directory,
\* or the metadata write fails.
CreateFaults == {"none", "mkdir", "save_audio"} \cup MetaFaults

\* VoiceCloner.create_voice_model
create_voice_model(md, dk, dirs, audio, model_name, description, now, fault) ==
    LET validation == validate_audio_quality(audio, CREATE_MIN_DURATION)
        model_id == generate_model_id(model_name, now)
        model_info ==
            [id |-> model_id,
             name |-> model_name,
             description |-> description,
             created_at |-> now,
             reference_audio |-> Some(ReferencePath(model_id)),
             duration |-> Some(validation.duration),
             quality_metrics |-> Some([snr_db |-> validation.snr_db, rms |-> validation.rms]),
             type |-> "custom",
             updated_at |-> None]
        md2 == [i \in DOMAIN md \cup {model_id} |-> IF i = model_id THEN model_info ELSE md[i]]
        same == [metadata |-> md, disk |-> dk, model_dirs |-> dirs]
    IN  CASE ~audio.decodable ->
                same @@ [result |-> Raised("load_audio")]
          [] audio.decodable /\ validation.raised ->
                same @@ [result |-> Raised("validate_audio_quality")]
          [] audio.decodable /\ ~validation.raised /\ ~validation.is_valid ->
                same @@ [result |-> Result(FALSE, {"success", "error", "issues"},
                                           "Audio quality validation failed",
                                           validation.issues, <<>>, None)]
          [] OTHER ->
                CASE fault = "mkdir" -> same @@ [result |-> Raised("mkdir")]
                  [] fault = "save_audio" ->
                        [metadata |-> md, disk |-> dk,
                         model_dirs |-> [i \in DOMAIN dirs \cup {model_id} |->
                                            IF i = model_id THEN <<"partial">> ELSE dirs[i]],
                         result |-> Raised("save_audio")]
                  [] OTHER ->
                        [metadata |-> md2,
                         disk |-> save_metadata(md2, dk, fault),
                         model_dirs |-> [i \in DOMAIN dirs \cup {model_id} |->
                                            IF i = model_id THEN preprocess_for_tts(audio)
                                            ELSE dirs[i]],
                         result |-> Result(TRUE, {"success", "model_id", "model_info"},
                                           "", <<>>, model_id, Some(model_info))]

\* VoiceCloner.get_model
get_model(md, model_id) == IF model_id \in DOMAIN md THEN Some(md[model_id]) ELSE None

\* What a failing shutil.rmtree leaves: the directory as it was, or the
\* directory without its reference file.
DeleteFaults == {"none", "rmtree_kept", "rmtree_emptied"} \cup MetaFaults

\* delete_model removing the directory before it looks the id up
delete_model_rmtree_first(md, dk, dirs, model_id, fault) ==
    LET md2 == [i \in DOMAIN md \ {model_id} |-> md[i]]
        dirs2 == [i \in DOMAIN dirs \ {model_id} |-> dirs[i]]
    IN  IF model_id \notin DOMAIN md
        THEN [metadata |-> md, disk |-> dk, model_dirs |-> dirs2, result |-> NotFound]
        ELSE [metadata |-> md2,
              disk |-> save_metadata(md2, dk, fault),
              model_dirs |-> dirs2,
              result |-> Result(TRUE, {"success", "message"}, "", <<>>, <<>>, None)]

\* VoiceCloner.delete_model
delete_model(md, dk, dirs, model_id, fault) ==
    LET md2 == [i \in DOMAIN md \ {model_id} |-> md[i]]
    IN  IF model_id \notin DOMAIN md
        THEN [metadata |-> md, disk |-> dk, model_dirs |-> dirs, result |-> NotFound]
        ELSE IF model_id \in DOMAIN dirs /\ fault \in {"rmtree_kept", "rmtree_emptied"}
        THEN [metadata |-> md, disk |-> dk,
              model_dirs |-> IF fault = "rmtree_kept" THEN dirs
                             ELSE [dirs EXCEPT ![model_id] = <<"removed">>],
              result |-> Raised("rmtree")]
        ELSE [metadata |-> md2,
              disk |-> save_metadata(md2, dk, fault),
              model_dirs |-> [i \in DOMAIN dirs \ {model_id} |-> dirs[i]],
              result |-> Result(TRUE, {"success", "message"}, "", <<>>, <<>>, None)]

\* update_model_info testing the description as it tests the name
\* ("if description:")
update_model_info_truthy(md, dk, model_id, name, description, now, fault) ==
    IF model_id \notin DOMAIN md
    THEN [metadata |-> md, disk |-> dk, result |-> NotFound]
    ELSE LET m0 == md[model_id]
             m1 == IF Truthy(name)
                   THEN [m0 EXCEPT !.name = CHOOSE v \in name : TRUE] ELSE m0
             m2 == IF \E v \in description : v # ""
                   THEN [m1 EXCEPT !.description = CHOOSE v \in description : TRUE] ELSE m1
             m3 == [m2 EXCEPT !.updated_at = Some(now)]
             md2 == [md EXCEPT ![model_id] = m3]
         IN  [metadata |-> md2,
              disk |-> save_metadata(md2, dk, fault),
              result |-> Result(TRUE, {"success", "model_info"}, "", <<>>, <<>>, Some(m3))]

\* update_model_info stamping created_at instead of updated_at
update_model_info_created_at(md, dk, model_id, name, description, now, fault) ==
    IF model_id \notin DOMAIN md
    THEN [metadata |-> md, disk |-> dk, result |-> NotFound]
    ELSE LET m0 == md[model_id]
             m1 == IF Truthy(name)
                   THEN [m0 EXCEPT !.name = CHOOSE v \in name : TRUE] ELSE m0
             m2 == IF description # None
                   THEN [m1 EXCEPT !.description = CHOOSE v \in description : TRUE] ELSE m1
             m3 == [m2 EXCEPT !.created_at = now]
             md2 == [md EXCEPT ![model_id] = m3]
         IN  [metadata |-> md2,
              disk |-> save_metadata(md2, dk, fault),
              result |-> Result(TRUE, {"success", "model_info"}, "", <<>>, <<>>, Some(m3))]

\* VoiceCloner.update_model_info
update_model_info(md, dk, model_id, name, description, now, fault) ==
    IF model_id \notin DOMAIN md
    THEN [metadata |-> md, disk |-> dk, result |-> NotFound]
    ELSE LET m0 == md[model_id]
             m1 == IF Truthy(name)
                   THEN [m0 EXCEPT !.name = CHOOSE v \in name : TRUE] ELSE m0
             m2 == IF description # None
                   THEN [m1 EXCEPT !.description = CHOOSE v \in description : TRUE] ELSE m1
             m3 == [m2 EXCEPT !.updated_at = Some(now)]
             md2 == [md EXCEPT ![model_id] = m3]
         IN  [metadata |-> md2,
              disk |-> save_metadata(md2, dk, fault),
              result |-> Result(TRUE, {"success", "model_info"}, "", <<>>, <<>>, Some(m3))]

\* the presets list of add_preset_voices
Preset(model_id, now) ==
    [id |-> model_id,
     name |-> IF model_id = <<"preset_morgan_freeman">>
              THEN <<"Morgan Freeman">> ELSE <<"David Attenborough">>,
     description |-> IF model_id = <<"preset_morgan_freeman">>
                     THEN "Deep, authoritative voice" ELSE "Nature documentary style",
     created_at |-> now,
     reference_audio |-> None,
     duration |-> None,
     quality_metrics |-> None,
     type |-> "preset",
     updated_at |-> None]

\* add_preset_voices without its "not in" test: every preset is written anew.
add_preset_voices_overwrite(md, dk, now, fault) ==
    LET md2 == [i \in DOMAIN md \cup PresetIds |->
                   IF i \in PresetIds THEN Preset(i, now) ELSE md[i]]
    IN  [metadata |-> md2, disk |-> save_metadata(md2, dk, fault)]

\* VoiceCloner.add_preset_voices
add_preset_voices(md, dk, now, fault) ==
    LET md2 == [i \in DOMAIN md \cup PresetIds |->
                   IF i \in DOMAIN md THEN md[i] ELSE Preset(i, now)]
    IN  [metadata |-> md2, disk |-> save_metadata(md2, dk, fault)]

----------------------------------------------------------------------------
(* backend/tts_engine.py *)

\* Reference recordings handed to clone_voice: one path holds ".wav", one
\* does not.
RefPaths == { <<"uploads/ref", ".wav">>, <<"uploads/ref", ".flac">> }

\* Output paths handed to the engine.
OutPaths == { <<"outputs/synthesis_", Timestamp(0), ".wav">>,
              <<"outputs/synthesis_", Timestamp(1), ".wav">> }

\* reference_audio.replace(".wav", "_processed.wav"): every occurrence
temp_path_of(reference_audio) ==
    [i \in 1..Len(reference_audio) |->
        IF reference_audio[i] = ".wav" THEN "_processed.wav" ELSE reference_audio[i]]

\* AudioProcessor.load_audio on a file of the engine: the decoded audio, or
\* None when librosa.load raises (no file, or not an audio the decoder reads)
load_audio(fs, file_path) ==
    IF file_path \in DOMAIN fs /\ fs[file_path][1] \in {"original", "processed"}
    THEN LET a == CHOOSE x \in Audios : x.tag = fs[file_path][2]
         IN  IF a.decodable THEN Some(a) ELSE None
    ELSE None

\* a result dictionary of the engine
TtsResult(success, error, keys) == [success |-> success, error |-> error, keys |-> keys]

\* What TTS.tts_to_file does in one call: writes the file, returns without
\* writing it, or raises.
ModelOutcomes == {"written", "nothing", "raised"}

\* TTSEngine.synthesize_speech
synthesize_speech(fs, output_path, speaker_wav, model) ==
    LET cloning == \E w \in speaker_wav : w \in DOMAIN fs
        voice == IF cloning THEN "cloned" ELSE "default"
        fs1 == IF model = "written"
               THEN [q \in DOMAIN fs \cup {output_path} |->
                        IF q = output_path THEN <<"speech", voice>> ELSE fs[q]]
               ELSE fs
    IN  IF model = "raised"
        THEN [files |-> fs, result |-> TtsResult(FALSE, "tts_to_file", {"success", "error"})]
        ELSE IF output_path \in DOMAIN fs1
        THEN [files |-> fs1,
              result |-> TtsResult(TRUE, "", {"success", "output_path", "file_size",
                                              "text_length", "model"})]
        ELSE [files |-> fs1,
              result |-> TtsResult(FALSE, "Output file was not created", {"success", "error"})]

\* What can fail in clone_voice besides the model: preprocess_for_tts
\* raises; save_audio raises before ("before") or after ("partial") it
\* created the temporary file; os.remove raises.
CloneFaults ==
    [pre : BOOLEAN, save : {"ok", "before", "partial"}, model : ModelOutcomes,
     remove : {"ok", "raised"}]

\* TTSEngine.clone_voice.  created: the call created its temporary file;
\* model: what tts_to_file did, "" when the call did not reach it.
clone_voice(fs, reference_audio, output_path, fault) ==
    LET loaded == load_audio(fs, reference_audio)
        audio == CHOOSE a \in loaded : TRUE
        validation == validate_audio_quality(audio, CLONE_MIN_DURATION)
        temp_path == temp_path_of(reference_audio)
        failed(e, f, c, m) == [files |-> f, created |-> c, temp_path |-> temp_path,
                               model |-> m,
                               result |-> TtsResult(FALSE, e, {"success", "error"})]
        fs1 == [q \in DOMAIN fs \cup {temp_path} |->
                   IF q = temp_path
                   THEN (IF fault.save = "ok" THEN preprocess_for_tts(audio) ELSE <<"partial">>)
                   ELSE fs[q]]
        syn == synthesize_speech(fs1, output_path, Some(temp_path), fault.model)
        fs3 == [q \in DOMAIN syn.files \ {temp_path} |-> syn.files[q]]
    IN  CASE loaded = None -> failed("load_audio", fs, FALSE, "")
          [] loaded # None /\ validation.raised -> failed("validate_audio_quality", fs, FALSE, "")
          [] loaded # None /\ ~validation.raised /\ fault.pre ->
                failed("preprocess_for_tts", fs, FALSE, "")
          [] loaded # None /\ ~validation.raised /\ ~fault.pre /\ fault.save = "before" ->
                failed("save_audio", fs, FALSE, "")
          [] loaded # None /\ ~validation.raised /\ ~fault.pre /\ fault.save = "partial" ->
                failed("save_audio", fs1, TRUE, "")
          [] OTHER ->
                IF temp_path \in DOMAIN syn.files /\ fault.remove = "raised"
                THEN failed("remove", syn.files, TRUE, fault.model)
                ELSE [files |-> fs3, created |-> TRUE, temp_path |-> temp_path,
                      model |-> fault.model,
                      result |-> IF syn.result.success
                                 THEN [syn.result EXCEPT !.keys = @ \cup {"audio_quality"}]
                                 ELSE syn.result]

----------------------------------------------------------------------------
(* backend/main.py *)

\* the status of a response that raises no HTTPException
HTTP_OK == 200

\* GET /models/{model_id}
http_get_model(md, model_id) ==
    IF get_model(md, model_id) # None THEN HTTP_OK ELSE 404

\* PUT /models/{model_id} and DELETE /models/{model_id}: the status the
\* handler answers with for a registry result
http_status_of(result) == IF result.success THEN HTTP_OK ELSE 400

\* settings.APP_NAME
APP_NAME == "VoiceClone Studio API"

\* settings.APP_VERSION
APP_VERSION == "1.0.0"

\* GET /: root() answers with RedirectResponse(url="/docs"), a 307 with a
\* Location header and no JSON body
root == [status |-> 307, location |-> Some("/docs"), body |-> None]

\* MAX_FILE_SIZE of upload_voice, in bytes
MAX_FILE_SIZE == 10 * 1024 * 1024

\* Names of uploaded files, an extension the last element.
Filenames == { <<"test", ".txt">>, <<"voice", ".wav">>, <<"voice", ".MP3">>,
               <<"voice", ".wav", ".exe">> }

\* Sizes of uploaded files, in bytes.
FileSizes == { 1024, MAX_FILE_SIZE + 1 }

\* str.lower() on an extension of the file names
LowerExt(e) == IF e = ".MP3" THEN ".mp3" ELSE e

\* file.filename.lower().endswith(suffixes)
EndsWith(filename, suffixes) == LowerExt(filename[Len(filename)]) \in suffixes

\* settings.UPLOAD_DIR / f"{timestamp}_{file.filename}"
UploadPath(filename, now) == <<"uploads/", Timestamp(now), "_">> \o filename

\* file_path.with_suffix('.wav')
WithSuffixWav(path) == SubSeq(path, 1, Len(path) - 1) \o <<".wav">>

\* the answer of upload_voice with the state it leaves; created: the handler
\* called create_voice_model
UploadAnswer(md, dk, dirs, fs, status, detail, created) ==
    [metadata |-> md, disk |-> dk, model_dirs |-> dirs, files |-> fs,
     status |-> status, detail |-> detail, created |-> created]

\* upload_voice once the file name passed the type test: the size test,
\* the staged file, the conversion to WAV and create_voice_model
upload_voice_accepted(md, dk, dirs, fs, filename, size, audio, model_name, description, now, fault) ==
    LET file_path == UploadPath(filename, now)
        staged == [q \in DOMAIN fs \cup {file_path} |->
                      IF q = file_path THEN <<"original", audio.tag>> ELSE fs[q]]
        is_wav == EndsWith(filename, {".wav"})
        wav_path == WithSuffixWav(file_path)
        converted == [q \in DOMAIN staged \cup {wav_path} |->
                         IF q = wav_path THEN <<"converted", audio.tag>> ELSE staged[q]]
        given == IF is_wav THEN audio ELSE normalize_audio(audio)
        r == create_voice_model(md, dk, dirs, given, model_name, description, now,
                                IF fault = "stage" THEN "none" ELSE fault)
    IN  CASE size > MAX_FILE_SIZE ->
                UploadAnswer(md, dk, dirs, fs, 400,
                             "File too large. Maximum size is 10MB.", FALSE)
          [] size <= MAX_FILE_SIZE /\ fault = "stage" ->
                UploadAnswer(md, dk, dirs, fs, 500, "open", FALSE)
          [] size <= MAX_FILE_SIZE /\ fault # "stage" /\ ~is_wav /\ ~audio.decodable ->
                UploadAnswer(md, dk, dirs, staged, 500, "load_audio", FALSE)
          [] size <= MAX_FILE_SIZE /\ fault # "stage" /\ ~is_wav /\ audio.decodable
             /\ audio.n = 0 ->
                UploadAnswer(md, dk, dirs, staged, 500, "normalize_audio", FALSE)
          [] OTHER ->
                UploadAnswer(r.metadata, r.disk, r.model_dirs,
                             IF is_wav THEN staged ELSE converted,
                             IF r.result.success THEN HTTP_OK ELSE 400,
                             IF r.result.success
                             THEN "Voice model created successfully"
                             ELSE r.result.error,
                             TRUE)

\* upload_voice writing the staged file before it tests the file name
upload_voice_stage_first(md, dk, dirs, fs, filename, size, audio, model_name, description, now, fault) ==
    LET file_path == UploadPath(filename, now)
        staged == [q \in DOMAIN fs \cup {file_path} |->
                      IF q = file_path THEN <<"original", audio.tag>> ELSE fs[q]]
    IN  IF ~EndsWith(filename, {".wav", ".mp3", ".m4a", ".flac"})
        THEN UploadAnswer(md, dk, dirs, staged, 400,
                          "Invalid file type. Supported: WAV, MP3, M4A, FLAC", FALSE)
        ELSE upload_voice_accepted(md, dk, dirs, fs, filename, size, audio, model_name,
                                   description, now, fault)

\* POST /upload-voice
upload_voice(md, dk, dirs, fs, filename, size, audio, model_name, description, now, fault) ==
    IF ~EndsWith(filename, {".wav", ".mp3", ".m4a", ".flac"})
    THEN UploadAnswer(md, dk, dirs, fs, 400,
                      "Invalid file type. Supported: WAV, MP3, M4A, FLAC", FALSE)
    ELSE upload_voice_accepted(md, dk, dirs, fs, filename, size, audio, model_name,
                               description, now, fault)

----------------------------------------------------------------------------
(* Actions *)

NoCall == [op |-> "none", model_id |-> <<>>, name |-> None, description |-> None,
           audio |-> "", fault |-> "none", status |-> 0,
           result |-> Result(TRUE, {}, "", <<>>, <<>>, None)]

Init ==
    /\ metadata = << >>
    /\ meta_shape = "models"
    /\ disk = NoDocument
    /\ model_dirs = << >>
    /\ clock = 0
    /\ steps = 0
    /\ last = NoCall
    /\ files = << >>
    /\ tts_last = [op |-> "none", reference |-> <<>>, output |-> <<>>,
                   created |-> FALSE, temp_path |-> <<>>, model |-> "",
                   result |-> TtsResult(TRUE, "", {})]

\* a second passes
Tick ==
    /\ steps < MaxSteps
    /\ steps' = steps + 1
    /\ clock' = clock + 1
    /\ UNCHANGED <<meta_shape, metadata, disk, model_dirs, last, files, tts_last>>

\* The faults create_voice_model can meet on an upload: none before the
\* audio has passed validation.
CreateFaultsOf(audio) ==
    IF audio.decodable /\ ~validate_audio_quality(audio, CREATE_MIN_DURATION).raised
       /\ validate_audio_quality(audio, CREATE_MIN_DURATION).is_valid
    THEN CreateFaults ELSE {"none"}

\* voice_cloner.create_voice_model(audio_path, model_name, description)
CreateVoiceModel ==
    \E audio \in Audios, model_name \in Names, description \in Descriptions :
      \E fault \in CreateFaultsOf(audio) :
        LET r == create_voice_model(metadata, disk, model_dirs, audio, model_name,
                                    description, clock, fault)
        IN  /\ steps < MaxSteps
            /\ steps' = steps + 1
            /\ metadata' = r.metadata
            /\ disk' = r.disk
            /\ model_dirs' = r.model_dirs
            /\ last' = [op |-> "create", model_id |-> <<>>, name |-> Some(model_name),
                        description |-> Some(description), audio |-> audio.tag,
                        fault |-> fault, status |-> 0, result |-> r.result]
            /\ UNCHANGED <<meta_shape, clock, files, tts_last>>

\* GET /models/{model_id}
GetModel ==
    \E model_id \in ModelIds :
        /\ steps < MaxSteps
        /\ steps' = steps + 1
        /\ last' = [op |-> "get", model_id |-> model_id, name |-> None,
                    description |-> None, audio |-> "", fault |-> "none",
                    status |-> http_get_model(metadata, model_id),
                    result |-> Result(get_model(metadata, model_id) # None, {}, "", <<>>,
                                      <<>>, get_model(metadata, model_id))]
        /\ UNCHANGED <<meta_shape, metadata, disk, model_dirs, clock, files, tts_last>>

\* The names and descriptions a ModelUpdateRequest carries.
UpdateNames == {None, Some(<<>>), Some(<<"b">>)}

UpdateDescriptions == {None, Some(""), Some("soft")}

\* PUT /models/{model_id}
UpdateModel ==
    \E model_id \in ModelIds, name \in UpdateNames, description \in UpdateDescriptions :
      \E fault \in IF model_id \in DOMAIN metadata THEN {"none"} \cup MetaFaults ELSE {"none"} :
        LET r == update_model_info(metadata, disk, model_id, name, description, clock, fault)
        IN  /\ steps < MaxSteps
            /\ steps' = steps + 1
            /\ metadata' = r.metadata
            /\ disk' = r.disk
            /\ last' = [op |-> "update", model_id |-> model_id, name |-> name,
                        description |-> description, audio |-> "", fault |-> fault,
                        status |-> http_status_of(r.result), result |-> r.result]
            /\ UNCHANGED <<meta_shape, model_dirs, clock, files, tts_last>>

\* DELETE /models/{model_id}
DeleteModel ==
    \E model_id \in ModelIds :
      \E fault \in IF model_id \in DOMAIN metadata THEN DeleteFaults ELSE {"none"} :
        LET r == delete_model(metadata, disk, model_dirs, model_id, fault)
        IN  /\ steps < MaxSteps
            /\ steps' = steps + 1
            /\ fault \in {"rmtree_kept", "rmtree_emptied"} => model_id \in DOMAIN model_dirs
            /\ metadata' = r.metadata
            /\ disk' = r.disk
            /\ model_dirs' = r.model_dirs
            /\ last' = [op |-> "delete", model_id |-> model_id, name |-> None,
                        description |-> None, audio |-> "", fault |-> fault,
                        status |-> http_status_of(r.result), result |-> r.result]
            /\ UNCHANGED <<meta_shape, clock, files, tts_last>>

\* voice_cloner.add_preset_voices()
AddPresetVoices ==
    \E fault \in {"none"} \cup MetaFaults :
        LET r == add_preset_voices(metadata, disk, clock, fault)
        IN  /\ steps < MaxSteps
            /\ steps' = steps + 1
            /\ metadata' = r.metadata
            /\ disk' = r.disk
            /\ last' = [op |-> "presets", model_id |-> <<>>, name |-> None,
                        description |-> None, audio |-> "", fault |-> fault,
                        status |-> 0, result |-> Result(TRUE, {}, "", <<>>, <<>>, None)]
            /\ UNCHANGED <<meta_shape, model_dirs, clock, files, tts_last>>

\* Audio placed at a reference path.
RefAudios == {"good", "short", "empty", "broken"}

\* A recording is stored at a reference path (an upload, or a model's
\* reference file).
PutReference ==
    \E path \in RefPaths, tag \in RefAudios :
        /\ steps < MaxSteps
        /\ steps' = steps + 1
        /\ files' = [q \in DOMAIN files \cup {path} |->
                        IF q = path THEN <<"original", tag>> ELSE files[q]]
        /\ tts_last' = [op |-> "put", reference |-> path, output |-> <<>>,
                        created |-> FALSE, temp_path |-> <<>>, model |-> "",
                        result |-> TtsResult(TRUE, "", {})]
        /\ UNCHANGED <<meta_shape, metadata, disk, model_dirs, clock, last>>

\* tts_engine.synthesize_speech(text, output_path) in the default voice
SynthesizeSpeech ==
    \E output_path \in OutPaths, model \in ModelOutcomes :
        LET r == synthesize_speech(files, output_path, None, model)
        IN  /\ steps < MaxSteps
            /\ steps' = steps + 1
            /\ files' = r.files
            /\ tts_last' = [op |-> "synthesize", reference |-> <<>>, output |-> output_path,
                            created |-> FALSE, temp_path |-> <<>>, model |-> model,
                            result |-> r.result]
            /\ UNCHANGED <<meta_shape, metadata, disk, model_dirs, clock, last>>

\* tts_engine.clone_voice(text, reference_audio, output_path)
CloneVoice ==
    \E reference_audio \in RefPaths, output_path \in OutPaths, fault \in CloneFaults :
        LET r == clone_voice(files, reference_audio, output_path, fault)
        IN  /\ steps < MaxSteps
            /\ steps' = steps + 1
            /\ files' = r.files
            /\ tts_last' = [op |-> "clone", reference |-> reference_audio,
                            output |-> output_path, created |-> r.created,
                            temp_path |-> r.temp_path, model |-> r.model,
                            result |-> r.result]
            /\ UNCHANGED <<meta_shape, metadata, disk, model_dirs, clock, last>>

TTSNext ==
    \/ PutReference
    \/ SynthesizeSpeech
    \/ CloneVoice

TTSSpec == Init /\ [][TTSNext]_vars

Next ==
    \/ Tick
    \/ CreateVoiceModel
    \/ GetModel
    \/ UpdateModel
    \/ DeleteModel
    \/ AddPresetVoices

Spec == Init /\ [][Next]_vars

----------------------------------------------------------------------------
(* _generate_model_id on its own *)

\* the characters of the names below
NameChars == {"A", "a", "1", "!", " ", "é", "É"}

\* every name of at most MaxNameLen characters
NameInputs == UNION { [1..k -> NameChars] : k \in 0..MaxNameLen }

\* self._generate_model_id(model_name)
GenerateModelId ==
    \E model_name \in NameInputs :
        /\ steps < MaxSteps
        /\ steps' = steps + 1
        /\ last' = [op |-> "generate_model_id", name |-> model_name,
                    model_id |-> generate_model_id(model_name, clock)]
        /\ UNCHANGED <<meta_shape, metadata, disk, model_dirs, clock, files, tts_last>>

IdNext ==
    \/ Tick
    \/ GenerateModelId

IdSpec == Init /\ [][IdNext]_vars

----------------------------------------------------------------------------
(* validate_audio_quality on its own *)

\* Waveforms of some samples: n samples, rms and peak in thousandths, snr
\* in dB; and the waveform of zero samples.
Waveforms ==
    { [tag |-> "w", decodable |-> TRUE, n |-> n, rms |-> rms, peak |-> peak, snr |-> snr] :
        n \in {3 * SAMPLE_RATE, 5 * SAMPLE_RATE - 1, 5 * SAMPLE_RATE,
               10 * SAMPLE_RATE - 1, 10 * SAMPLE_RATE, 12 * SAMPLE_RATE},
        rms \in {9, 10, 100}, peak \in {500, 990, 995}, snr \in {5, 10, 20} }
    \cup { [tag |-> "w", decodable |-> TRUE, n |-> 0, rms |-> 0, peak |-> 0, snr |-> 0] }

\* the min_duration arguments of the callers
MinDurations == {CLONE_MIN_DURATION, CREATE_MIN_DURATION}

\* audio_processor.validate_audio_quality(audio, min_duration)
ValidateAudioQuality ==
    \E audio \in Waveforms, min_duration \in MinDurations :
        /\ steps < MaxSteps
        /\ steps' = steps + 1
        /\ last' = [op |-> "validate", audio |-> audio, min_duration |-> min_duration,
                    report |-> validate_audio_quality(audio, min_duration)]
        /\ UNCHANGED <<meta_shape, metadata, disk, model_dirs, clock, files, tts_last>>

ValidateNext == ValidateAudioQuality

ValidateSpec == Init /\ [][ValidateNext]_vars

----------------------------------------------------------------------------
(* A registry constructed on an existing models_metadata.json *)

\* A registry entry of a document written by an earlier run.
StoredModel(model_id) ==
    [id |-> model_id, name |-> <<"b">>, description |-> "warm",
     created_at |-> 0, reference_audio |-> Some(ReferencePath(model_id)),
     duration |-> Some(12 * SAMPLE_RATE), quality_metrics |-> None,
     type |-> "custom", updated_at |-> None]

\* The mappings of the well-shaped documents.
StoredMappings ==
    { << >>,
      [i \in {generate_model_id(<<"a", "?">>, 0)} |-> StoredModel(i)],
      [i \in PresetIds |-> Preset(i, 0)] }

\* The documents a registry can find: none, one json.load rejects, one with
\* a mapping under "models", and JSON values of another shape: {} has no
\* "models", [] is no object, {"models": []} has no object under "models".
Documents ==
    { NoDocument,
      [exists |-> TRUE, wellformed |-> FALSE, shape |-> "models", models |-> << >>] }
    \cup { [exists |-> TRUE, wellformed |-> TRUE, shape |-> "models", models |-> m] :
             m \in StoredMappings }
    \cup { [exists |-> TRUE, wellformed |-> TRUE, shape |-> sh, models |-> << >>] :
             sh \in {"no_models_key", "not_object", "models_not_object"} }

\* the document is not one a registry wrote
Malformed(dk) == dk.exists /\ (~dk.wellformed \/ dk.shape # "models")

\* VoiceCloner.get_model on what _load_metadata returned: the exception it
\* raises ("" is none) and the value it returns
registry_get_model(shape, md, model_id) ==
    CASE shape = "models" -> [raised |-> "", value |-> get_model(md, model_id)]
      [] shape = "no_models_key" -> [raised |-> "KeyError", value |-> None]
      [] shape = "not_object" -> [raised |-> "TypeError", value |-> None]
      [] OTHER -> [raised |-> "AttributeError", value |-> None]

\* VoiceCloner.get_all_models on what _load_metadata returned: the exception
\* it raises and the entries of the list it returns
registry_get_all_models(shape, md) ==
    CASE shape = "models" -> [raised |-> "", value |-> { md[i] : i \in DOMAIN md }]
      [] shape = "no_models_key" -> [raised |-> "KeyError", value |-> None]
      [] shape = "not_object" -> [raised |-> "TypeError", value |-> None]
      [] OTHER -> [raised |-> "AttributeError", value |-> None]

\* No registry is constructed yet; some document may be on disk.
LoadInit ==
    /\ metadata = << >>
    /\ meta_shape = "unbuilt"
    /\ disk \in Documents
    /\ model_dirs = << >>
    /\ clock = 0
    /\ steps = 0
    /\ last = [op |-> "none", model_id |-> <<>>, raised |-> "", value |-> None]
    /\ files = << >>
    /\ tts_last = [op |-> "none", reference |-> <<>>, output |-> <<>>,
                   created |-> FALSE, temp_path |-> <<>>, model |-> "",
                   result |-> TtsResult(TRUE, "", {})]

\* VoiceCloner(models_dir)
Construct ==
    /\ steps < MaxSteps
    /\ steps' = steps + 1
    /\ meta_shape' = loaded_shape(disk)
    /\ metadata' = load_metadata(disk)
    /\ last' = [op |-> "construct", model_id |-> <<>>, raised |-> "", value |-> None]
    /\ UNCHANGED <<disk, model_dirs, clock, files, tts_last>>

\* voice_cloner.get_model(model_id) on the constructed registry
RegistryGetModel ==
    \E model_id \in ModelIds :
        LET r == registry_get_model(meta_shape, metadata, model_id)
        IN  /\ meta_shape # "unbuilt"
            /\ steps < MaxSteps
            /\ steps' = steps + 1
            /\ last' = [op |-> "get_model", model_id |-> model_id,
                        raised |-> r.raised, value |-> r.value]
            /\ UNCHANGED <<metadata, meta_shape, disk, model_dirs, clock, files, tts_last>>

\* voice_cloner.get_all_models() on the constructed registry
RegistryGetAllModels ==
    LET r == registry_get_all_models(meta_shape, metadata)
    IN  /\ meta_shape # "unbuilt"
        /\ steps < MaxSteps
        /\ steps' = steps + 1
        /\ last' = [op |-> "get_all_models", model_id |-> <<>>,
                    raised |-> r.raised, value |-> r.value]
        /\ UNCHANGED <<metadata, meta_shape, disk, model_dirs, clock, files, tts_last>>

LoadNext ==
    \/ Construct
    \/ RegistryGetModel
    \/ RegistryGetAllModels

LoadSpec == LoadInit /\ [][LoadNext]_vars

----------------------------------------------------------------------------
(* The upload and root routes of backend/main.py *)

\* Recordings uploaded.
UploadAudios == { a \in Audios : a.tag \in {"good", "quiet", "empty", "broken"} }

\* The faults upload_voice can meet on an upload: none before the file
\* passed the type and size tests, then a failing write of the staged file,
\* and those of create_voice_model once it validated the audio.
UploadFaultsOf(filename, size, audio) ==
    IF ~EndsWith(filename, {".wav", ".mp3", ".m4a", ".flac"}) \/ size > MAX_FILE_SIZE
    THEN {"none"}
    ELSE {"stage"} \cup
         CreateFaultsOf(IF EndsWith(filename, {".wav"}) THEN audio ELSE normalize_audio(audio))

\* POST /upload-voice (file, model_name, description)
UploadVoice ==
    \E filename \in Filenames, size \in FileSizes, audio \in UploadAudios,
       model_name \in Names, description \in Descriptions :
      \E fault \in UploadFaultsOf(filename, size, audio) :
        LET r == upload_voice(metadata, disk, model_dirs, files, filename, size, audio,
                              model_name, description, clock, fault)
        IN  /\ steps < MaxSteps
            /\ steps' = steps + 1
            /\ metadata' = r.metadata
            /\ disk' = r.disk
            /\ model_dirs' = r.model_dirs
            /\ files' = r.files
            /\ last' = [op |-> "upload", filename |-> filename, size |-> size,
                        audio |-> audio.tag, fault |-> fault, status |-> r.status,
                        detail |-> r.detail, created |-> r.created,
                        location |-> None, body |-> None]
            /\ UNCHANGED <<meta_shape, clock, tts_last>>

\* GET /
Root ==
    /\ steps < MaxSteps
    /\ steps' = steps + 1
    /\ last' = [op |-> "root", filename |-> <<>>, size |-> 0, audio |-> "",
                fault |-> "none", status |-> root.status, detail |-> "",
                created |-> FALSE, location |-> root.location, body |-> root.body]
    /\ UNCHANGED <<metadata, meta_shape, disk, model_dirs, clock, files, tts_last>>

HttpNext ==
    \/ Tick
    \/ UploadVoice
    \/ Root

HttpSpec == Init /\ [][HttpNext]_vars

----------------------------------------------------------------------------
(* Properties of the registry *)

\* the step is a call (not a clock tick)
IsCall == steps' = steps + 1 /\ clock' = clock

\* the operations that change the registry
Mutating == {"create", "update", "delete"}

\* an id without its timestamp
Prefix(model_id) == SubSeq(model_id, 1, Len(model_id) - 1)

AudioOf(tag) == CHOOSE a \in Audios : a.tag = tag

C3_ConsecutiveCreatesDistinct ==
    [][ (/\ IsCall
         /\ last.op = "create" /\ last.result.success
         /\ last'.op = "create" /\ last'.result.success
         /\ last'.name = last.name)
        => (/\ last'.result.model_id # last.result.model_id
            /\ Prefix(last'.result.model_id) = Prefix(last.result.model_id)
            /\ {last.result.model_id, last'.result.model_id} \subseteq DOMAIN metadata'
            /\ {last.result.model_id, last'.result.model_id} \subseteq DOMAIN model_dirs') ]_vars

\* C4: a create call whose audio is shorter than 10 s or has an RMS below
\* 0.01 returns a failure carrying the issues list and leaves the mapping,
\* the document and the model directories as they were.
C4_InvalidAudioRejected ==
    [][ (/\ IsCall
         /\ last'.op = "create"
         /\ AudioOf(last'.audio).decodable
         /\ \/ AudioOf(last'.audio).n < CREATE_MIN_DURATION * SAMPLE_RATE
            \/ AudioOf(last'.audio).rms < RMS_MIN)
        => (/\ ~last'.result.success
            /\ "issues" \in last'.result.keys
            /\ last'.result.issues # <<>>
            /\ metadata' = metadata
            /\ disk' = disk
            /\ model_dirs' = model_dirs) ]_vars

\* C5: a delete call on an id that is not in the registry returns "Model
\* not found" and leaves the mapping, the document and every model
\* directory unchanged.
C5_DeleteUnknownChangesNothing ==
    [][ (/\ IsCall
         /\ last'.op = "delete"
         /\ last'.model_id \notin DOMAIN metadata)
        => (/\ ~last'.result.success
            /\ last'.result.error = "Model not found"
            /\ metadata' = metadata
            /\ disk' = disk
            /\ model_dirs' = model_dirs) ]_vars

\* C5 witness: a delete of an unknown id has returned while the registry
\* holds a model and its directory.
C5_Witness ==
    /\ last.op = "delete"
    /\ last.result.error = "Model not found"
    /\ last.model_id \notin DOMAIN metadata
    /\ DOMAIN metadata # {}
    /\ DOMAIN model_dirs # {}

\* C6: while an id stays in the registry its duration, quality_metrics and
\* reference_audio do not change, whatever call is made.
C6_MetricsImmutable ==
    [][ \A i \in DOMAIN metadata \cap DOMAIN metadata' :
            /\ metadata'[i].duration = metadata[i].duration
            /\ metadata'[i].quality_metrics = metadata[i].quality_metrics
            /\ metadata'[i].reference_audio = metadata[i].reference_audio ]_vars

\* C7: a delete call on an existing id in which removing the directory or
\* writing the metadata failed returns a failure, and a delete call that
\* returns success leaves a document without the id.
C7_DeleteFailureSurfaces ==
    (last.op = "delete" /\ last.result.error # "Model not found")
        => (/\ last.fault # "none" => ~last.result.success
            /\ last.result.success => last.model_id \notin DOMAIN load_metadata(disk))

\* C8 as claimed: an update call on an existing id stores every supplied
\* name and every supplied description, the empty string included, keeps a
\* field that is not supplied, and stamps updated_at.
C8_UpdateAppliesSupplied ==
    [][ (/\ IsCall
         /\ last'.op = "update"
         /\ last'.model_id \in DOMAIN metadata)
        => LET i == last'.model_id IN
           /\ last'.result.success
           /\ i \in DOMAIN metadata'
           /\ \A v \in last'.name : metadata'[i].name = v
           /\ last'.name = None => metadata'[i].name = metadata[i].name
           /\ \A v \in last'.description : metadata'[i].description = v
           /\ last'.description = None => metadata'[i].description = metadata[i].description
           /\ metadata'[i].updated_at = Some(clock) ]_vars

\* C8 amended: an update call on an existing id stores a supplied name
\* that is not empty and every supplied description, the empty string
\* included; a name that is not supplied or is the empty string, and a
\* description that is not supplied, keep the stored value; updated_at is
\* stamped.
C8_UpdateAppliesTruthyName ==
    [][ (/\ IsCall
         /\ last'.op = "update"
         /\ last'.model_id \in DOMAIN metadata)
        => LET i == last'.model_id IN
           /\ last'.result.success
           /\ i \in DOMAIN metadata'
           /\ \A v \in last'.name : v # <<>> => metadata'[i].name = v
           /\ (last'.name = None \/ last'.name = Some(<<>>))
                 => metadata'[i].name = metadata[i].name
           /\ \A v \in last'.description : metadata'[i].description = v
           /\ last'.description = None => metadata'[i].description = metadata[i].description
           /\ metadata'[i].updated_at = Some(clock) ]_vars

\* C8 witness: an update that supplied the empty name and the empty
\* description has returned: the description is empty, the name is not.
C8_Witness ==
    /\ last.op = "update"
    /\ last.result.success
    /\ last.name = Some(<<>>)
    /\ last.description = Some("")
    /\ metadata[last.model_id].name # <<>>
    /\ metadata[last.model_id].description = ""

\* C9: an update call on an existing id that supplies only a description
\* changes nothing of the model but description and updated_at, changes no
\* other model, and sets updated_at.
C9_UpdateDescriptionOnly ==
    [][ (/\ IsCall
         /\ last'.op = "update"
         /\ last'.model_id \in DOMAIN metadata
         /\ last'.name = None
         /\ last'.description # None)
        => LET i == last'.model_id IN
           /\ DOMAIN metadata' = DOMAIN metadata
           /\ \A j \in DOMAIN metadata \ {i} : metadata'[j] = metadata[j]
           /\ metadata'[i] = [metadata[i] EXCEPT
                                 !.description = metadata'[i].description,
                                 !.updated_at = metadata'[i].updated_at]
           /\ metadata'[i].updated_at = Some(clock) ]_vars

\* C9 witness: an update with only a description has returned on a
\* registry of several models, and the model's name is the one it had.
C9_Witness ==
    /\ last.op = "update"
    /\ last.result.success
    /\ last.name = None
    /\ last.description = Some("soft")
    /\ Cardinality(DOMAIN metadata) > 1
    /\ metadata[last.model_id].description = "soft"
    /\ metadata[last.model_id].updated_at # None

\* C10: GET, PUT and DELETE on /models/{id} answer 404 when the id is not
\* in the registry.
C10_UnknownIdIs404 ==
    [][ (/\ IsCall
         /\ last'.op \in {"get", "update", "delete"}
         /\ last'.model_id \notin DOMAIN metadata)
        => last'.status = 404 ]_vars

----------------------------------------------------------------------------
(* Properties of the engine *)

\* C2: when clone_voice returns, the temporary processed-reference file it
\* created does not exist, whatever the model did and whichever step after
\* the file's creation raised.
C2_TempFileRemoved ==
    (tts_last.op = "clone" /\ tts_last.created)
        => tts_last.temp_path \notin DOMAIN files

\* C11: synthesize_speech in the default voice returns a failure whenever
\* tts_to_file of that call wrote no output file, and success only when it
\* wrote it, whatever the output directory held before.
C11_SuccessIffModelWrote ==
    tts_last.op = "synthesize"
        => (/\ tts_last.model # "written" => ~tts_last.result.success
            /\ tts_last.result.success => tts_last.model = "written")

\* C18: clone_voice leaves the reference file it is given in place with its
\* content: the temporary path it writes and removes is another path.
C18_ReferenceUntouched ==
    [][ (/\ steps' = steps + 1
         /\ tts_last'.op = "clone"
         /\ tts_last'.reference \in DOMAIN files)
        => (/\ temp_path_of(tts_last'.reference) # tts_last'.reference
            /\ tts_last'.reference \in DOMAIN files'
            /\ files'[tts_last'.reference] = files[tts_last'.reference]) ]_vars

\* C15: after add_preset_voices every preset id is in the registry, every
\* entry that was there before the call (one under a preset id included) is
\* as it was, and a second call in a row changes nothing: the mapping is
\* the same, and so is the document when both calls wrote it.
C15_PresetsIdempotent ==
    [][ (IsCall /\ last'.op = "presets")
        => (/\ PresetIds \subseteq DOMAIN metadata'
            /\ \A i \in DOMAIN metadata : metadata'[i] = metadata[i]
            /\ DOMAIN metadata' = DOMAIN metadata \cup PresetIds
            /\ last.op = "presets" =>
                  /\ metadata' = metadata
                  /\ (last.fault = "none" /\ last'.fault = "none") => disk' = disk) ]_vars

\* C15 witness: add_preset_voices has run on a registry that held a preset
\* entry renamed since an earlier run, and the entry is still the renamed one.
C15_Witness ==
    /\ last.op = "presets"
    /\ \E i \in PresetIds :
          /\ i \in DOMAIN metadata
          /\ metadata[i].updated_at # None
          /\ metadata[i].name # Preset(i, 0).name

----------------------------------------------------------------------------
(* Properties of a registry constructed on an existing document *)

\* C12: construction never raises on any document, and on a malformed
\* document the registry starts empty: get_model returns nothing for every
\* id and get_all_models returns no entry, neither raising.
C12_MalformedStartsEmpty ==
    /\ last.op = "construct" => last.raised = ""
    /\ (last.op \in {"get_model", "get_all_models"} /\ Malformed(disk))
          => (last.raised = "" /\ last.value = None)

----------------------------------------------------------------------------
(* Properties of the pure functions *)

\* [a-z0-9_]
AsciiIdChars ==
    {"a", "b", "c", "d", "e", "f", "g", "h", "i", "j", "k", "l", "m", "n", "o",
     "p", "q", "r", "s", "t", "u", "v", "w", "x", "y", "z", "0", "1", "2", "3",
     "4", "5", "6", "7", "8", "9", "_"}

\* the ASCII letters of the names, with their lowercase
AsciiLower(c) == IF c = "A" THEN "a" ELSE c

\* C13: the name part of an id (what precedes "_" and the timestamp) has
\* only characters of [a-z0-9_]: an ASCII letter or digit of the name is kept
\* in lowercase and every other character is "_".
C13_IdPrefixAscii ==
    last.op = "generate_model_id"
        => /\ Len(last.model_id) = Len(last.name) + 2
           /\ \A i \in 1..Len(last.name) :
                /\ last.model_id[i] \in AsciiIdChars
                /\ last.model_id[i] =
                     IF AsciiLower(last.name[i]) \in AsciiIdChars \ {"_"}
                     THEN AsciiLower(last.name[i]) ELSE "_"

\* C14: the report of validate_audio_quality has is_valid = FALSE for a
\* waveform shorter than min_duration (one of zero samples included) and for
\* one of RMS below 0.01; peak and SNR never make is_valid FALSE.
C14_ShortOrQuietInvalid ==
    last.op = "validate"
        => LET a == last.audio
               bad == a.n < last.min_duration * SAMPLE_RATE \/ a.rms < RMS_MIN
           IN  /\ ~last.report.raised
               /\ last.report.is_valid = ~bad

----------------------------------------------------------------------------
(* Properties of the upload and root routes *)

\* C16: an upload whose file name does not end in .wav, .mp3, .m4a or .flac
\* is answered 400 "Invalid file type" before anything else: no file is
\* staged, create_voice_model is not called, and the registry, its document
\* and its directories are unchanged.
C16_InvalidTypeRejectedFirst ==
    [][ (/\ IsCall
         /\ last'.op = "upload"
         /\ ~EndsWith(last'.filename, {".wav", ".mp3", ".m4a", ".flac"}))
        => (/\ last'.status = 400
            /\ last'.detail = "Invalid file type. Supported: WAV, MP3, M4A, FLAC"
            /\ ~last'.created
            /\ files' = files
            /\ metadata' = metadata
            /\ disk' = disk
            /\ model_dirs' = model_dirs) ]_vars

\* C16 witness: a file of a wrong type has been rejected by a service that
\* holds a model and a staged upload.
C16_Witness ==
    /\ last.op = "upload"
    /\ ~EndsWith(last.filename, {".wav", ".mp3", ".m4a", ".flac"})
    /\ last.status = 400
    /\ DOMAIN metadata # {}
    /\ DOMAIN files # {}

\* C17: GET / answers 200 with the JSON body
\* {message: APP_NAME, version: APP_VERSION, status: "running"}.
C17_RootAnswersStatus ==
    last.op = "root"
        => /\ last.status = HTTP_OK
           /\ last.body = Some([message |-> APP_NAME, version |-> APP_VERSION,
                                status |-> "running"])

====
